---- MODULE Spec2Model ----
(***************************************************************************)
(* Model of flake8/option_parser.py: Option, OptionManager,                *)
(* ConfigFileFinder and MergedConfigParser.                                *)
(*                                                                         *)
(* Python strings are modelled as sequences of one-character strings, so   *)
(* that strip / replace / commonprefix / split work on characters as they   *)
(* do in the code.  Python's None is the value None below.                  *)
(***************************************************************************)
EXTENDS Integers, Sequences, FiniteSets, TLC

VARIABLES
    \* ConfigFileFinder
    args, parent, tail, gen_pc, gen_parent, gen_tail, gen_i, yielded,
    \* Option / OptionManager
    options, config_options_dict, parser_opts, accepted, add_args, add_outcome,
    created,
    \* MergedConfigParser and the configuration files it reads
    local_cfg, user_cfg, last_op, outcome, calls, config_dict, user_outcome

finder_vars == <<args, parent, tail, gen_pc, gen_parent, gen_tail, gen_i, yielded>>
manager_vars == <<options, config_options_dict, parser_opts, accepted, add_args, add_outcome>>
merged_vars == <<local_cfg, user_cfg, last_op, outcome, calls, config_dict, user_outcome>>
vars == <<finder_vars, manager_vars, created, merged_vars>>

----------------------------------------------------------------------------
(* Bounds *)

MaxPathLen == 3
MaxNameLen == 4
MaxOptions == 2
MaxKeys == 2

----------------------------------------------------------------------------
(* Strings *)

None == <<"None">>

Truthy(s) == s # None /\ s # <<>>

RECURSIVE SeqsUpTo(_, _)
SeqsUpTo(alphabet, n) ==
    IF n = 0 THEN {<<>>}
    ELSE LET shorter == SeqsUpTo(alphabet, n - 1)
         IN shorter \cup {Append(s, c) : s \in shorter, c \in alphabet}

StartsWith(s, p) == Len(p) <= Len(s) /\ SubSeq(s, 1, Len(p)) = p

EndsWith(s, c) == Len(s) > 0 /\ s[Len(s)] = c

\* str.split(sep) for a one-character separator
RECURSIVE SplitOn(_, _)
SplitOn(s, sep) ==
    IF \A i \in 1..Len(s) : s[i] # sep THEN <<s>>
    ELSE LET i == CHOOSE k \in 1..Len(s) :
                      s[k] = sep /\ \A j \in 1..(k - 1) : s[j] # sep
         IN <<SubSeq(s, 1, i - 1)>> \o SplitOn(SubSeq(s, i + 1, Len(s)), sep)

\* sep.join(parts)
RECURSIVE JoinWith(_, _)
JoinWith(parts, sep) ==
    IF parts = <<>> THEN <<>>
    ELSE IF Len(parts) = 1 THEN parts[1]
    ELSE parts[1] \o <<sep>> \o JoinWith(Tail(parts), sep)

\* str.lstrip(c), str.rstrip(c), str.strip(c)
RECURSIVE LStrip(_, _)
LStrip(s, c) == IF s # <<>> /\ s[1] \in c THEN LStrip(Tail(s), c) ELSE s

RECURSIVE RStrip(_, _)
RStrip(s, c) ==
    IF s # <<>> /\ s[Len(s)] \in c THEN RStrip(SubSeq(s, 1, Len(s) - 1), c) ELSE s

Strip(s, c) == RStrip(LStrip(s, c), c)

\* str.replace(old, new) for one-character old and new
Replace(s, old, new) == [i \in 1..Len(s) |-> IF s[i] = old THEN new ELSE s[i]]

----------------------------------------------------------------------------
(* os.path (posixpath) *)

Dot == <<".">>
DotDot == <<".", ".">>
Root == <<"/">>

\* os.getcwd(): the directory the tool is run from
Cwd == <<"/", "b">>

IsAbs(p) == StartsWith(p, Root)

PathJoin(a, b) ==
    IF IsAbs(b) THEN b
    ELSE IF a = <<>> \/ EndsWith(a, "/") THEN a \o b
    ELSE a \o Root \o b

InitialSlashes(p) ==
    IF ~StartsWith(p, Root) THEN 0
    ELSE IF StartsWith(p, <<"/", "/">>) /\ ~StartsWith(p, <<"/", "/", "/">>) THEN 2
    ELSE 1

RECURSIVE NormFold(_, _, _, _)
NormFold(comps, i, new, slashes) ==
    IF i > Len(comps) THEN new
    ELSE LET c == comps[i] IN
         IF c = <<>> \/ c = Dot THEN NormFold(comps, i + 1, new, slashes)
         ELSE IF \/ c # DotDot
                 \/ (slashes = 0 /\ new = <<>>)
                 \/ (new # <<>> /\ new[Len(new)] = DotDot)
              THEN NormFold(comps, i + 1, Append(new, c), slashes)
         ELSE IF new # <<>>
              THEN NormFold(comps, i + 1, SubSeq(new, 1, Len(new) - 1), slashes)
         ELSE NormFold(comps, i + 1, new, slashes)

NormPath(p) ==
    IF p = <<>> THEN Dot
    ELSE LET slashes == InitialSlashes(p)
             comps == NormFold(SplitOn(p, "/"), 1, <<>>, slashes)
             joined == [i \in 1..slashes |-> "/"] \o JoinWith(comps, "/")
         IN IF joined = <<>> THEN Dot ELSE joined

AbsPath(p) == NormPath(IF IsAbs(p) THEN p ELSE PathJoin(Cwd, p))

\* os.path.split: (head, tail) around the last slash
RFind(p) ==
    IF \A i \in 1..Len(p) : p[i] # "/" THEN 0
    ELSE CHOOSE i \in 1..Len(p) : p[i] = "/" /\ \A j \in (i + 1)..Len(p) : p[j] # "/"

\* split that leaves the slashes at the end of the head
PathSplitKeepingSlash(p) ==
    <<SubSeq(p, 1, RFind(p)), SubSeq(p, RFind(p) + 1, Len(p))>>

PathSplit(p) ==
    LET i == RFind(p)
        head == SubSeq(p, 1, i)
        rest == SubSeq(p, i + 1, Len(p))
    IN <<IF head # <<>> /\ (\E k \in 1..Len(head) : head[k] # "/")
         THEN RStrip(head, {"/"}) ELSE head,
         rest>>

\* os.path.commonprefix: the longest character prefix shared by all elements
CommonPrefix(m) ==
    IF m = <<>> THEN <<>>
    ELSE LET shared(n) == \A j \in 1..Len(m) :
                              /\ Len(m[j]) >= n
                              /\ SubSeq(m[j], 1, n) = SubSeq(m[1], 1, n)
             n == CHOOSE k \in 0..Len(m[1]) :
                      shared(k) /\ \A l \in (k + 1)..Len(m[1]) : ~shared(l)
         IN SubSeq(m[1], 1, n)

----------------------------------------------------------------------------
(* ConfigFileFinder *)

ProgramName == <<"f", "8">>

SetupCfg == <<"s", "e", "t", "u", "p", ".", "c", "f", "g">>
ToxIni == <<"t", "o", "x", ".", "i", "n", "i">>
ProgramConfig == Dot \o ProgramName

ProjectFilenames == <<SetupCfg, ToxIni, ProgramConfig>>

\* __init__: the common ancestor the walk starts from
CommonAncestor(a) == AbsPath(CommonPrefix(IF a = <<>> THEN <<Dot>> ELSE a))

PathChars == {"/", "a", "b"}
Paths == SeqsUpTo(PathChars, MaxPathLen) \ {<<>>}
ArgLists == {<<>>} \cup {<<p>> : p \in Paths} \cup {<<p, q>> : p \in Paths, q \in Paths}

Filename(dir, i) == AbsPath(PathJoin(dir, ProjectFilenames[i]))

\* generate_possible_local_config_files is called: a fresh generator
GenCall ==
    /\ gen_pc \in {"idle", "done"}
    /\ gen_pc' = "start"
    /\ gen_tail' = tail
    /\ gen_parent' = parent
    /\ gen_i' = 0
    /\ yielded' = <<>>
    /\ UNCHANGED <<args, parent, tail, manager_vars, created, merged_vars>>

\* next() on the generator: run to the next yield, or to the end of the loop
GenNext ==
    /\ gen_pc \in {"start", "yielded"}
    /\ IF gen_pc = "start" \/ gen_i = Len(ProjectFilenames)
       THEN LET sp == IF gen_pc = "start" THEN <<gen_parent, gen_tail>>
                      ELSE PathSplit(gen_parent)
            IN /\ gen_parent' = sp[1]
               /\ gen_tail' = sp[2]
               /\ IF sp[2] # <<>>
                  THEN /\ gen_pc' = "yielded"
                       /\ gen_i' = 1
                       /\ yielded' = Append(yielded, Filename(sp[1], 1))
                  ELSE /\ gen_pc' = "done"
                       /\ gen_i' = 0
                       /\ yielded' = yielded
       ELSE /\ gen_pc' = "yielded"
            /\ gen_i' = gen_i + 1
            /\ yielded' = Append(yielded, Filename(gen_parent, gen_i + 1))
            /\ UNCHANGED <<gen_parent, gen_tail>>
    /\ UNCHANGED <<args, parent, tail, manager_vars, created, merged_vars>>

----------------------------------------------------------------------------
(* Option *)

NoValue == "None"

\* an Option that does not insist on a long name
OptionInitUnchecked(kw) ==
    [error |-> NoValue,
     short_option_name |-> kw.short_option_name,
     long_option_name |-> kw.long_option_name,
     action |-> kw.action,
     type |-> kw.type,
     parse_from_config |-> kw.parse_from_config,
     comma_separated_list |-> kw.comma_separated_list,
     config_name |-> IF kw.parse_from_config /\ Truthy(kw.long_option_name)
                     THEN Replace(Strip(kw.long_option_name, {"-"}), "-", "_")
                     ELSE None]

\* Option.__init__: the Option object, or the error it raises.
\* config_name is only set when parse_from_config is given.
OptionInit(kw) ==
    IF kw.parse_from_config /\ ~Truthy(kw.long_option_name)
    THEN [error |-> "ValueError"]
    ELSE [error |-> NoValue,
          short_option_name |-> kw.short_option_name,
          long_option_name |-> kw.long_option_name,
          action |-> kw.action,
          type |-> kw.type,
          parse_from_config |-> kw.parse_from_config,
          comma_separated_list |-> kw.comma_separated_list,
          config_name |-> IF kw.parse_from_config
                          THEN Replace(Strip(kw.long_option_name, {"-"}), "-", "_")
                          ELSE None]

\* option_args: the names that are given
OptionArgs(option) ==
    {n \in {option.short_option_name, option.long_option_name} : Truthy(n)}

(* optparse, as far as add_option depends on it: what optparse.Option and
   OptionParser.add_option reject *)
OptparseActions == {"store", "store_const", "store_true", "store_false", "append",
                    "append_const", "count", "callback", "help", "version"}
OptparseTypedActions == {"store", "append", "callback"}
OptparseTypes == {"string", "int", "long", "float", "complex", "choice"}

ValidOptString(n) ==
    /\ Len(n) >= 2
    /\ IF Len(n) = 2 THEN n[1] = "-" /\ n[2] # "-"
       ELSE n[1] = "-" /\ n[2] = "-" /\ n[3] # "-"

ToOptparse(option) ==
    LET action == IF option.action = NoValue THEN "store" ELSE option.action
    IN IF OptionArgs(option) = {} THEN "TypeError"
       ELSE IF \E n \in OptionArgs(option) : ~ValidOptString(n) THEN "OptionError"
       ELSE IF action \notin OptparseActions THEN "OptionError"
       ELSE IF option.type # NoValue /\ option.type \notin OptparseTypes THEN "OptionError"
       ELSE IF option.type # NoValue /\ action \notin OptparseTypedActions THEN "OptionError"
       ELSE NoValue

ParserAddOption(popts, option) ==
    IF OptionArgs(option) \cap popts # {} THEN "OptionConflictError" ELSE NoValue

----------------------------------------------------------------------------
(* OptionManager *)

EmptyDict == [k \in {} |-> None]

\* an assignment that keeps the entry already there
DictSetDefault(d, key, value) ==
    [k \in DOMAIN d \cup {key} |-> IF k \in DOMAIN d THEN d[k] ELSE value]

DictSet(d, key, value) ==
    [k \in DOMAIN d \cup {key} |-> IF k = key THEN value ELSE d[k]]

\* the --help option every optparse.OptionParser starts with
HelpOpts == {<<"-", "h">>, <<"-", "-", "h", "e", "l", "p">>}

\* OptionManager.__init__
NewManager == [options |-> <<>>, config_options_dict |-> EmptyDict, parser_opts |-> HelpOpts]

\* add_option: the manager after the call and the error the call raised, if any
AddOptionTo(m, kw) ==
    LET option == OptionInit(kw) IN
    IF option.error # NoValue THEN [manager |-> m, error |-> option.error]
    ELSE IF ToOptparse(option) # NoValue THEN [manager |-> m, error |-> ToOptparse(option)]
    ELSE IF ParserAddOption(m.parser_opts, option) # NoValue
         THEN [manager |-> m, error |-> ParserAddOption(m.parser_opts, option)]
    ELSE [manager |->
             [options |-> Append(m.options, option),
              config_options_dict |->
                  IF option.parse_from_config
                  THEN DictSet(m.config_options_dict, option.config_name, option)
                  ELSE m.config_options_dict,
              parser_opts |-> m.parser_opts \cup OptionArgs(option)],
          error |-> NoValue]

Kwargs(short, long, action, type, pfc, csl) ==
    [short_option_name |-> short, long_option_name |-> long, action |-> action,
     type |-> type, parse_from_config |-> pfc, comma_separated_list |-> csl]

NoKwargs == Kwargs(None, None, NoValue, NoValue, FALSE, FALSE)

ShortNames == {None, <<"-", "a">>}
LongNames == {None, <<>>, <<"-", "-", "a", "-", "b">>, <<"-", "-", "a", "_", "b">>}
ActionNames == {NoValue, "store_true"}
TypeNames == {NoValue, "int"}

AddOption(kw) ==
    /\ Len(options) < MaxOptions
    /\ LET m == [options |-> options, config_options_dict |-> config_options_dict,
                 parser_opts |-> parser_opts]
           r == AddOptionTo(m, kw)
       IN /\ options' = r.manager.options
          /\ config_options_dict' = r.manager.config_options_dict
          /\ parser_opts' = r.manager.parser_opts
          /\ add_outcome' = IF r.error = NoValue THEN "ok" ELSE r.error
          /\ accepted' = IF r.error = NoValue THEN Append(accepted, kw) ELSE accepted
    /\ add_args' = kw
    /\ UNCHANGED <<finder_vars, created, merged_vars>>

\* Option(...) constructed on its own
NameChars == {"-", "a", "_"}
OptionNames == {None} \cup {<<"-", "-">> \o s : s \in SeqsUpTo(NameChars, MaxNameLen)}

CreateOption(long, pfc) ==
    /\ created' = [args |-> Kwargs(None, long, NoValue, NoValue, pfc, FALSE),
                   option |-> OptionInit(Kwargs(None, long, NoValue, NoValue, pfc, FALSE))]
    /\ UNCHANGED <<finder_vars, manager_vars, merged_vars>>

----------------------------------------------------------------------------
(* configparser.RawConfigParser, as far as MergedConfigParser uses it.
   A parsed configuration is its program_name section: whether there is one,
   and its (key, raw value) items in file order. *)

NoSection == [has_section |-> FALSE, items |-> <<>>]

Section(items) == [has_section |-> TRUE, items |-> items]

HasSection(cfg) == cfg.has_section

ConfigKeys(cfg) == [i \in 1..Len(cfg.items) |-> cfg.items[i][1]]

HasOption(cfg, key) == \E i \in 1..Len(cfg.items) : cfg.items[i][1] = key

RawOf(cfg, key) == cfg.items[CHOOSE i \in 1..Len(cfg.items) : cfg.items[i][1] = key][2]

\* coerced values: a string, an int, a bool or a list of strings
StrValue(s) == [t |-> "str", s |-> s, i |-> 0, b |-> FALSE, l |-> <<>>]
IntValue(i) == [t |-> "int", s |-> <<>>, i |-> i, b |-> FALSE, l |-> <<>>]
BoolValue(b) == [t |-> "bool", s |-> <<>>, i |-> 0, b |-> b, l |-> <<>>]
ListValue(l) == [t |-> "list", s |-> <<>>, i |-> 0, b |-> FALSE, l |-> l]

Ok(value) == [error |-> NoValue, value |-> value]
Raise(error) == [error |-> error, value |-> StrValue(<<>>)]

Digits == <<"0", "1", "2", "3", "4", "5", "6", "7", "8", "9">>
IsDigit(c) == \E d \in 1..10 : Digits[d] = c
DigitValue(c) == (CHOOSE d \in 1..10 : Digits[d] = c) - 1

RECURSIVE DecimalValue(_)
DecimalValue(s) ==
    IF s = <<>> THEN 0
    ELSE 10 * DecimalValue(SubSeq(s, 1, Len(s) - 1)) + DigitValue(s[Len(s)])

\* int(string)
ParseInt(s) ==
    LET t == Strip(s, {" "})
        signed == t # <<>> /\ t[1] \in {"+", "-"}
        body == IF signed THEN Tail(t) ELSE t
    IN IF body = <<>> \/ \E k \in 1..Len(body) : ~IsDigit(body[k])
       THEN Raise("ValueError")
       ELSE Ok(IntValue(IF signed /\ t[1] = "-" THEN 0 - DecimalValue(body)
                        ELSE DecimalValue(body)))

LowerChar(c) ==
    CASE c = "T" -> "t" [] c = "Y" -> "y" [] c = "O" -> "o" [] c = "N" -> "n"
      [] c = "F" -> "f" [] OTHER -> c

Lower(s) == [k \in 1..Len(s) |-> LowerChar(s[k])]

TrueStrings == {<<"1">>, <<"y", "e", "s">>, <<"t", "r", "u", "e">>, <<"o", "n">>}
FalseStrings == {<<"0">>, <<"n", "o">>, <<"f", "a", "l", "s", "e">>, <<"o", "f", "f">>}

\* config.get / config.getint / config.getboolean on the program_name section
ConfigGet(cfg, key) ==
    IF ~HasSection(cfg) THEN Raise("NoSectionError")
    ELSE IF ~HasOption(cfg, key) THEN Raise("NoOptionError")
    ELSE Ok(StrValue(RawOf(cfg, key)))

ConfigGetInt(cfg, key) ==
    LET raw == ConfigGet(cfg, key)
    IN IF raw.error # NoValue THEN raw ELSE ParseInt(raw.value.s)

ConfigGetBoolean(cfg, key) ==
    LET raw == ConfigGet(cfg, key)
    IN IF raw.error # NoValue THEN raw
       ELSE IF Lower(raw.value.s) \in TrueStrings THEN Ok(BoolValue(TRUE))
       ELSE IF Lower(raw.value.s) \in FalseStrings THEN Ok(BoolValue(FALSE))
       ELSE Raise("ValueError")

CallMethod(method, cfg, key) ==
    CASE method = "getint" -> ConfigGetInt(cfg, key)
      [] method = "getboolean" -> ConfigGetBoolean(cfg, key)
      [] OTHER -> ConfigGet(cfg, key)

\* utils.parse_comma_separated_list: split on commas and trim each element.
\* The split is defined for string values.
ParseCommaSeparatedList(value) ==
    IF value.t # "str" THEN value
    ELSE LET parts == SplitOn(value.s, ",")
         IN ListValue([k \in 1..Len(parts) |-> Strip(parts[k], {" "})])

----------------------------------------------------------------------------
(* MergedConfigParser *)

GETINT_METHODS == {"int", "count"}
GETBOOL_METHODS == {"store_true", "store_false"}

\* a choice that knows no boolean options
SelectMethodWithoutBoolean(option) ==
    IF option.type \in GETINT_METHODS THEN "getint" ELSE "get"

\* the method chosen for an option: config.get unless the option says otherwise
SelectMethod(option) ==
    IF option.type \in GETINT_METHODS THEN "getint"
    ELSE IF option.action \in GETBOOL_METHODS THEN "getboolean"
    ELSE "get"

\* a test that skips nothing
NothingSkipped(option_name, config_options) == FALSE

\* "option_name not in self.config_options"
NotRegistered(option_name, config_options) == option_name \notin DOMAIN config_options

\* what a call returns: None, a dict, or the exception it raises
ReturnNone == [kind |-> "None", error |-> NoValue, error_key |-> None, value |-> EmptyDict]
ReturnDict(d) == [kind |-> "dict", error |-> NoValue, error_key |-> None, value |-> d]
RaiseAt(error, key) == [kind |-> "error", error |-> error, error_key |-> key, value |-> EmptyDict]
NotCalled == [kind |-> "unset", error |-> NoValue, error_key |-> None, value |-> EmptyDict]

Run(ret, method_calls, d) == [ret |-> ret, calls |-> method_calls, config_dict |-> d]

\* the loop of _parse_config from the i-th option name on; config is the
\* configuration the values are read from
RECURSIVE ParseLoop(_, _, _, _, _, _)
ParseLoop(names, i, config, config_options, method_calls, d) ==
    IF i > Len(names) THEN Run(ReturnNone, method_calls, d)
    ELSE LET option_name == names[i] IN
         IF NotRegistered(option_name, config_options)
         THEN ParseLoop(names, i + 1, config, config_options, method_calls, d)
         ELSE IF option_name \notin DOMAIN config_options
         THEN Run(RaiseAt("KeyError", option_name), method_calls, d)
         ELSE LET option == config_options[option_name]
                  method == SelectMethod(option)
                  got == CallMethod(method, config, option_name)
                  called == Append(method_calls, [key |-> option_name, method |-> method])
              IN IF got.error # NoValue
                 THEN Run(RaiseAt(got.error, option_name), called, d)
                 ELSE ParseLoop(names, i + 1, config, config_options, called,
                                DictSet(d, option_name,
                                        IF option.comma_separated_list
                                        THEN ParseCommaSeparatedList(got.value)
                                        ELSE got.value))

\* _parse_config(config_parser): reads the local configuration files itself
ParseConfig(config_parser, local, config_options) ==
    LET config == local IN
    IF ~HasSection(config) THEN Run(ReturnDict(EmptyDict), <<>>, EmptyDict)
    ELSE IF ~HasSection(config_parser)
         THEN Run(RaiseAt("NoSectionError", None), <<>>, EmptyDict)
    ELSE ParseLoop(ConfigKeys(config_parser), 1, config, config_options, <<>>, EmptyDict)

IsConfiguredBy(config) == HasSection(config)

ParseLocalConfigRun(local, config_options) ==
    IF ~IsConfiguredBy(local) THEN Run(ReturnNone, <<>>, EmptyDict)
    ELSE ParseConfig(local, local, config_options)

ParseUserConfigRun(user, local, config_options) ==
    IF ~IsConfiguredBy(user) THEN Run(ReturnNone, <<>>, EmptyDict)
    ELSE ParseConfig(user, local, config_options)

\* dict.setdefault for every item of user_config
SetDefaults(config, user_config) ==
    [k \in DOMAIN config \cup DOMAIN user_config |->
        IF k \in DOMAIN config THEN config[k] ELSE user_config[k]]

\* parse(): user configuration first, then local, then the merge
ParseRun(user, local, config_options) ==
    LET u == ParseUserConfigRun(user, local, config_options) IN
    IF u.ret.kind = "error" THEN u
    ELSE LET l == ParseLocalConfigRun(local, config_options)
             both == u.calls \o l.calls
         IN IF l.ret.kind = "error" THEN Run(l.ret, both, l.config_dict)
            ELSE IF u.ret.kind # "dict"
                 THEN Run(RaiseAt("AttributeError", None), both, l.config_dict)
            ELSE IF DOMAIN u.ret.value = {} THEN Run(l.ret, both, l.config_dict)
            ELSE IF l.ret.kind # "dict"
                 THEN Run(RaiseAt("AttributeError", None), both, l.config_dict)
            ELSE Run(ReturnDict(SetDefaults(l.ret.value, u.ret.value)), both, l.config_dict)

\* the configuration files the model reads: keys a and b may be registered,
\* x never is
ConfigKeyNames == {<<"a">>, <<"b">>, <<"x">>}
RawValues == {<<"1">>, <<"a", ",", " ", "b">>}

RECURSIVE ItemSeqs(_)
ItemSeqs(n) ==
    IF n = 0 THEN {<<>>}
    ELSE LET shorter == ItemSeqs(n - 1)
         IN shorter \cup
            {Append(s, <<k, v>>) :
                s \in {t \in shorter : Len(t) = n - 1},
                k \in ConfigKeyNames, v \in RawValues}

DistinctKeys(items) ==
    \A i, j \in 1..Len(items) : items[i][1] = items[j][1] => i = j

Configs == {NoSection} \cup {Section(items) : items \in {s \in ItemSeqs(MaxKeys) : DistinctKeys(s)}}

LongA == <<"-", "-", "a">>
LongB == <<"-", "-", "b">>

\* the add_option calls the tool makes at startup
RegistryCalls ==
    {<<>>,
     <<Kwargs(None, LongA, NoValue, NoValue, TRUE, FALSE),
       Kwargs(None, LongB, NoValue, "int", TRUE, FALSE)>>,
     <<Kwargs(None, LongA, "store_true", NoValue, TRUE, FALSE),
       Kwargs(None, LongB, NoValue, NoValue, TRUE, TRUE)>>,
     <<Kwargs(None, LongA, NoValue, "int", TRUE, FALSE),
       Kwargs(None, LongB, NoValue, NoValue, FALSE, FALSE)>>}

RECURSIVE ManagerAfter(_)
ManagerAfter(kws) ==
    IF kws = <<>> THEN NewManager
    ELSE AddOptionTo(ManagerAfter(SubSeq(kws, 1, Len(kws) - 1)), kws[Len(kws)]).manager

Finish(op, run) ==
    /\ last_op' = op
    /\ outcome' = run.ret
    /\ calls' = run.calls
    /\ config_dict' = run.config_dict

CallParseConfigLocal ==
    /\ Finish("_parse_config(local)", ParseConfig(local_cfg, local_cfg, config_options_dict))
    /\ UNCHANGED <<finder_vars, manager_vars, created, local_cfg, user_cfg, user_outcome>>

CallParseConfigUser ==
    /\ Finish("_parse_config(user)", ParseConfig(user_cfg, local_cfg, config_options_dict))
    /\ UNCHANGED <<finder_vars, manager_vars, created, local_cfg, user_cfg, user_outcome>>

CallParseLocalConfig ==
    /\ Finish("parse_local_config", ParseLocalConfigRun(local_cfg, config_options_dict))
    /\ UNCHANGED <<finder_vars, manager_vars, created, local_cfg, user_cfg, user_outcome>>

CallParseUserConfig ==
    /\ Finish("parse_user_config", ParseUserConfigRun(user_cfg, local_cfg, config_options_dict))
    /\ user_outcome' = ParseUserConfigRun(user_cfg, local_cfg, config_options_dict).ret
    /\ UNCHANGED <<finder_vars, manager_vars, created, local_cfg, user_cfg>>

CallParse ==
    /\ Finish("parse", ParseRun(user_cfg, local_cfg, config_options_dict))
    /\ user_outcome' = ParseUserConfigRun(user_cfg, local_cfg, config_options_dict).ret
    /\ UNCHANGED <<finder_vars, manager_vars, created, local_cfg, user_cfg>>

\* the local configuration files change between two calls
ChangeLocalConfig ==
    /\ local_cfg' \in Configs \ {local_cfg}
    /\ last_op' = "none"
    /\ outcome' = NotCalled
    /\ calls' = <<>>
    /\ config_dict' = EmptyDict
    /\ UNCHANGED <<finder_vars, manager_vars, created, user_cfg, user_outcome>>

----------------------------------------------------------------------------
(* Specifications *)

FinderAt(a) ==
    /\ args = a
    /\ parent = CommonAncestor(a)
    /\ tail = CommonAncestor(a)
    /\ gen_pc = "idle"
    /\ gen_parent = <<>>
    /\ gen_tail = <<>>
    /\ gen_i = 0
    /\ yielded = <<>>

ManagerAt(m) ==
    /\ options = m.options
    /\ config_options_dict = m.config_options_dict
    /\ parser_opts = m.parser_opts
    /\ accepted = <<>>
    /\ add_args = NoKwargs
    /\ add_outcome = "none"

NothingCreated ==
    created = [args |-> NoKwargs, option |-> [error |-> "unset"]]

MergedAt(local, user) ==
    /\ local_cfg = local
    /\ user_cfg = user
    /\ last_op = "none"
    /\ outcome = NotCalled
    /\ calls = <<>>
    /\ config_dict = EmptyDict
    /\ user_outcome = NotCalled

\* the locator: any command line, then the walk
InitFinder ==
    /\ \E a \in ArgLists : FinderAt(a)
    /\ ManagerAt(NewManager)
    /\ NothingCreated
    /\ MergedAt(NoSection, NoSection)

NextFinder == GenCall \/ GenNext

SpecFinder == InitFinder /\ [][NextFinder]_vars

\* the registry: a new manager, then add_option calls
InitManager ==
    /\ FinderAt(<<>>)
    /\ ManagerAt(NewManager)
    /\ NothingCreated
    /\ MergedAt(NoSection, NoSection)

NextManager ==
    \E short \in ShortNames, long \in LongNames, action \in ActionNames,
       type \in TypeNames, pfc \in BOOLEAN :
        AddOption(Kwargs(short, long, action, type, pfc, FALSE))

SpecManager == InitManager /\ [][NextManager]_vars

\* Option objects on their own
NextOption == \E long \in OptionNames, pfc \in BOOLEAN : CreateOption(long, pfc)

SpecOption == InitManager /\ [][NextOption]_vars

\* the merge engine: a registry built at startup, configuration files on disk
InitMerged ==
    /\ FinderAt(<<>>)
    /\ \E kws \in RegistryCalls : ManagerAt(ManagerAfter(kws))
    /\ NothingCreated
    /\ \E local \in Configs, user \in Configs : MergedAt(local, user)

NextMerged ==
    \/ CallParseConfigLocal
    \/ CallParseConfigUser
    \/ CallParseLocalConfig
    \/ CallParseUserConfig
    \/ CallParse
    \/ ChangeLocalConfig

SpecMerged == InitMerged /\ [][NextMerged]_vars

----------------------------------------------------------------------------
(* Properties of the locator *)

IsPrefixOf(s, t) == Len(s) <= Len(t) /\ SubSeq(t, 1, Len(s)) = s

\* the names of the directories on the way down to an absolute path
Components(p) == LET NonEmpty(c) == c # <<>> IN SelectSeq(SplitOn(p, "/"), NonEmpty)

RootOf(p) == IF InitialSlashes(p) = 2 THEN <<"/", "/">> ELSE Root

\* the ancestor of p that is k directories below the root
AncestorAt(p, k) == RootOf(p) \o JoinWith(SubSeq(Components(p), 1, k), "/")

InDirectory(dir, name) == IF EndsWith(dir, "/") THEN dir \o name ELSE dir \o Root \o name

\* the candidates of a walk from start: start, then each parent up to the root,
\* three file names each
ExpectedWalk(start) ==
    LET depth == Len(Components(start))
    IN [j \in 1..(3 * (depth + 1)) |->
           InDirectory(AncestorAt(start, depth - ((j - 1) \div 3)),
                       <<SetupCfg, ToxIni, <<".", "f", "8">>>>[((j - 1) % 3) + 1])]

\* C6: the walk yields setup.cfg, tox.ini and .<program_name> for the common
\* ancestor and then for each of its parents up to the root, each directory
\* once and the root last; after the last candidate of the root the walk ends.
WalkVisitsEachAncestorOnce ==
    /\ IsPrefixOf(yielded, ExpectedWalk(parent))
    /\ gen_pc = "done" => yielded = ExpectedWalk(parent)
    /\ (gen_pc = "yielded" /\ Len(yielded) = Len(ExpectedWalk(parent)))
          => PathSplit(gen_parent)[2] = <<>>

WalkFromBelowRootDone ==
    /\ gen_pc = "done"
    /\ Len(Components(parent)) = 2
    /\ Len(yielded) = 9

\* the longest directory prefix the absolute input paths share, whole
\* component by whole component
RECURSIVE SharedComponents(_, _)
SharedComponents(paths, n) ==
    IF /\ \A j \in 1..Len(paths) : Len(Components(paths[j])) > n
       /\ \A j \in 1..Len(paths) : Components(paths[j])[n + 1] = Components(paths[1])[n + 1]
    THEN SharedComponents(paths, n + 1)
    ELSE n

LongestSharedDirectory(a) ==
    LET abs == [j \in 1..Len(a) |-> AbsPath(a[j])]
    IN Root \o JoinWith(SubSeq(Components(abs[1]), 1, SharedComponents(abs, 0)), "/")

\* C7: the common ancestor is the longest directory prefix shared by the input
\* paths, compared component by component; the current directory without input.
CommonAncestorIsSharedDirectory ==
    IF args = <<>> THEN parent = Cwd
    ELSE /\ \A j \in 1..Len(args) :
              IsPrefixOf(Components(parent), Components(AbsPath(args[j])))
         /\ Components(parent) = Components(LongestSharedDirectory(args))

----------------------------------------------------------------------------
(* Properties of Option and OptionManager *)

\* C3: add_option with parse_from_config and no long option name raises the
\* construction error and leaves the option list and the config-key map as
\* they were.
FailedRegistrationRegistersNothing ==
    [][(add_args'.parse_from_config /\ ~Truthy(add_args'.long_option_name))
        => /\ add_outcome' = "ValueError"
           /\ options' = options
           /\ config_options_dict' = config_options_dict]_vars

RejectedAfterARegistration ==
    /\ add_outcome = "ValueError"
    /\ add_args.parse_from_config
    /\ add_args.short_option_name # None
    /\ add_args.long_option_name = <<>>
    /\ Len(options) = 1
    /\ DOMAIN config_options_dict # {}

\* C8: the config-key name is the long name without its leading dashes and
\* with every remaining dash replaced by an underscore, nothing else changed.
ConfigNameStripsLeadingDashesOnly ==
    (created.option.error = NoValue /\ created.args.parse_from_config)
        => created.option.config_name =
               Replace(LStrip(created.args.long_option_name, {"-"}), "-", "_")

LastWith(name) ==
    CHOOSE i \in 1..Len(options) :
        /\ options[i].parse_from_config /\ options[i].config_name = name
        /\ \A j \in (i + 1)..Len(options) :
              ~(options[j].parse_from_config /\ options[j].config_name = name)

\* C9: the option list holds the registered options in registration order; the
\* keys of the config-key map are the config-key names of the options
\* registered with parse_from_config, each mapped to the last option registered
\* under that name.
RegistryMatchesRegistrations ==
    /\ Len(options) = Len(accepted)
    /\ \A i \in 1..Len(options) :
          /\ options[i].short_option_name = accepted[i].short_option_name
          /\ options[i].long_option_name = accepted[i].long_option_name
          /\ options[i].action = accepted[i].action
          /\ options[i].type = accepted[i].type
          /\ options[i].parse_from_config = accepted[i].parse_from_config
    /\ DOMAIN config_options_dict =
          {options[i].config_name : i \in {j \in 1..Len(options) : options[j].parse_from_config}}
    /\ \A name \in DOMAIN config_options_dict :
          /\ config_options_dict[name] = options[LastWith(name)]
          /\ config_options_dict[name].parse_from_config

TwoOptionsOneConfigName ==
    /\ Len(options) = 2
    /\ options[1].parse_from_config /\ options[2].parse_from_config
    /\ options[1].config_name = options[2].config_name
    /\ options[1].long_option_name # options[2].long_option_name
    /\ config_options_dict[options[2].config_name] = options[2]

----------------------------------------------------------------------------
(* Properties of the merge engine *)

Registered(key) == key \in DOMAIN config_options_dict

\* what filtering and coercing a configuration's own section gives
OwnValue(cfg, key) ==
    LET option == config_options_dict[key]
        got == CallMethod(IF option.type \in {"int", "count"} THEN "getint"
                          ELSE IF option.action \in {"store_true", "store_false"}
                               THEN "getboolean"
                          ELSE "get", cfg, key)
    IN IF got.error = NoValue /\ option.comma_separated_list
       THEN Ok(ParseCommaSeparatedList(got.value)) ELSE got

OwnKeys(cfg) == {key \in {cfg.items[i][1] : i \in 1..Len(cfg.items)} : Registered(key)}

Coerces(cfg) == \A key \in OwnKeys(cfg) : OwnValue(cfg, key).error = NoValue

\* C1: when the configuration files set registered options, parse() returns the
\* local values, plus the user values of the keys the local configuration does
\* not set, and no other key.
MergePrefersLocal ==
    (/\ last_op = "parse"
     /\ OwnKeys(local_cfg) \cup OwnKeys(user_cfg) # {}
     /\ Coerces(local_cfg) /\ Coerces(user_cfg))
        => /\ outcome.kind = "dict"
           /\ DOMAIN outcome.value = OwnKeys(local_cfg) \cup OwnKeys(user_cfg)
           /\ \A key \in DOMAIN outcome.value :
                 outcome.value[key] = IF key \in OwnKeys(local_cfg)
                                      THEN OwnValue(local_cfg, key).value
                                      ELSE OwnValue(user_cfg, key).value

\* C2: with no program_name section in the local nor in the user
\* configuration, parse() returns an empty mapping.
NoSectionGivesEmptyMapping ==
    (last_op = "parse" /\ ~HasSection(local_cfg) /\ ~HasSection(user_cfg))
        => (outcome.kind = "dict" /\ outcome.value = EmptyDict)

RegisteredNames(names) == SelectSeq(names, Registered)

\* C4: a key that is not registered is skipped: no method is called for it, it
\* raises nothing and it is not put in the dict, and the registered keys around
\* it are read as usual.
UnregisteredKeysAreSkipped ==
    /\ \A i \in 1..Len(calls) : Registered(calls[i].key)
    /\ \A key \in DOMAIN config_dict : Registered(key)
    /\ outcome.kind = "error" => (outcome.error_key = None \/ Registered(outcome.error_key))
    /\ (last_op = "_parse_config(user)" /\ HasSection(local_cfg) /\ outcome.kind = "None")
          => [i \in 1..Len(calls) |-> calls[i].key] = RegisteredNames(ConfigKeys(user_cfg))

SkippedThenRead ==
    /\ last_op = "_parse_config(user)"
    /\ Len(user_cfg.items) = 2
    /\ user_cfg.items[1][1] = <<"x">>
    /\ Registered(user_cfg.items[2][1])
    /\ outcome.kind = "None"
    /\ Len(calls) = 1
    /\ DOMAIN config_dict = {user_cfg.items[2][1]}

\* C5: the method follows from the option alone: getint for the types int and
\* count, else getboolean for the actions store_true and store_false, else get.
MethodFollowsOption ==
    \A i \in 1..Len(calls) :
        LET option == config_options_dict[calls[i].key]
            int == option.type \in {"int", "count"}
            bool == option.action \in {"store_true", "store_false"}
        IN /\ calls[i].method = "getint" <=> int
           /\ calls[i].method = "getboolean" <=> (~int /\ bool)
           /\ calls[i].method = "get" <=> (~int /\ ~bool)

BooleanAndListOptionsRead ==
    /\ last_op = "_parse_config(local)"
    /\ Len(calls) = 2
    /\ calls[1].method = "getboolean"
    /\ calls[2].method = "get"
    /\ config_dict[calls[1].key].t = "bool"
    /\ config_dict[calls[2].key].t = "list"

\* C10: two calls of parse_user_config with the same registry and the same
\* user configuration give the same outcome, whatever the local configuration.
UserOutcomeIgnoresLocalConfig ==
    [][(user_outcome.kind # "unset") => (user_outcome' = user_outcome)]_vars

====
